---- MODULE Spec2Model ----
(***************************************************************************)
(* Model of egami's frame-rendering context (src/src/render.rs), its      *)
(* vertex builder (src/src/vertex.rs) and trait glue (src/src/types.rs).  *)
(*                                                                         *)
(* The fields of WgpuFrameRenderContext are the variables.  The GPU        *)
(* objects created lazily are records carrying the ordinal the device gave *)
(* them at creation, so that identity (not only content) is observable,    *)
(* and every call records the objects it created.  A texture write waits   *)
(* in the queue until the next submit puts it into the texture.            *)
(*                                                                         *)
(* f32 values are binary floating-point numbers of 24 significant bits     *)
(* with +inf, -inf and NaN, and every f32 operation rounds to nearest,     *)
(* ties to even.  What wgpu itself does with the arguments it is given     *)
(* (validation) is not modelled.                                           *)
(***************************************************************************)
EXTENDS Integers, Sequences, FiniteSets, TLC

\* ---------------------------------------------------------------- bounds
MaxViewDim == 2      \* surface widths and heights range over 0..MaxViewDim
MaxFrameSizes == 4   \* frames take the first MaxFrameSizes sizes, by growing larger side
MaxAspectDim == 3    \* Vertex::from is called for sizes over 1..MaxAspectDim (and AspectSamples)

\* ---------------------------------------------------------------- options
None == <<>>
Some(x) == <<x>>

\* ---------------------------------------------------------------- f32
\* A finite f32 value is <<m, e>> = m * 2^e with m odd (or <<0, 0>> for zero);
\* <<1, SPECIAL>> is +inf, <<-1, SPECIAL>> is -inf, <<0, SPECIAL>> is NaN.
\* Every operation rounds its exact result to MANTISSA_DIGITS significant bits,
\* to nearest, ties to even.  Exponents are not limited: for operands made from
\* u32 sizes they stay far inside f32's range.  Zero carries no sign.
MANTISSA_DIGITS == 24
SPECIAL == 9999

Abs(x) == IF x < 0 THEN -x ELSE x

Sign(x) == IF x > 0 THEN 1 ELSE IF x < 0 THEN -1 ELSE 0

\* number of binary digits of n, 0 <= n < 2^30
BitLen(n) == CHOOSE b \in 0..30 : n < 2 ^ b /\ (b = 0 \/ n >= 2 ^ (b - 1))

FNeg(a) == <<-a[1], a[2]>>

\* m * 2^e with the factors of two moved from m into e, |m| < 2^30
TrailingZeros(n) == CHOOSE k \in 0..29 : n % 2 ^ k = 0 /\ n % 2 ^ (k + 1) # 0
Shifted(m, e, k) == <<m \div 2 ^ k, e + k>>
Canon(m, e) ==
    IF m = 0 THEN <<0, 0>>
    ELSE IF m < 0 THEN FNeg(Shifted(-m, e, TrailingZeros(-m)))
    ELSE Shifted(m, e, TrailingZeros(m))

\* m = q * 2^shift + rem rounded to q or q + 1, in units of 2^shift
RoundShifted(q, rem, half, sticky) ==
    IF rem > half \/ (rem = half /\ (sticky \/ q % 2 = 1)) THEN q + 1 ELSE q

RoundDigits(sign, m, e, sticky, shift) ==
    IF shift <= 0 THEN Canon(sign * m, e)
    ELSE Canon(sign * RoundShifted(m \div 2 ^ shift, m % 2 ^ shift, 2 ^ (shift - 1), sticky),
               e + shift)

\* sign * (m * 2^e, plus something below the last bit of m when sticky) rounded
\* to MANTISSA_DIGITS bits; m >= 0, and m has more than MANTISSA_DIGITS bits
\* whenever sticky
RoundNE(sign, m, e, sticky) == RoundDigits(sign, m, e, sticky, BitLen(m) - MANTISSA_DIGITS)

IsNaN(a) == a = <<0, SPECIAL>>
IsFinite(a) == a[2] # SPECIAL

\* an integer as f32
F32(x) == RoundNE(Sign(x), Abs(x), 0, FALSE)

\* long division: <<q, r, k>> is a quotient, the remainder r < d and the number
\* of binary digits still to produce; a step produces up to six of them
DivDigitsStep(s, d, n) ==
    <<s[1] * 2 ^ n + (s[2] * 2 ^ n) \div d, (s[2] * 2 ^ n) % d, s[3] - n>>
DivStep(s, d) == DivDigitsStep(s, d, IF s[3] < 6 THEN s[3] ELSE 6)
DivStep3(s, d) == DivStep(DivStep(DivStep(s, d), d), d)
\* floor(a * 2^k / d) and whether a remainder is left, 0 <= k <= 54
DivEnd(s) == <<s[1], s[2] # 0>>
LongDiv(a, d, k) == DivEnd(DivStep3(DivStep3(DivStep3(<<a \div d, a % d, k>>, d), d), d))

\* sign * (ma / mb) * 2^e rounded, from the quotient ma * 2^k / mb, which has
\* MANTISSA_DIGITS + 2 digits or one more
DivRounded(sign, q, e) == RoundNE(sign, q[1], e, q[2])
DivDigits(sign, ma, mb, e, k) == DivRounded(sign, LongDiv(ma, mb, k), e - k)

FDiv(a, b) ==
    IF IsNaN(a) \/ IsNaN(b) THEN <<0, SPECIAL>>
    ELSE IF ~IsFinite(a) THEN (IF ~IsFinite(b) THEN <<0, SPECIAL>>
                               ELSE <<a[1] * (IF b[1] < 0 THEN -1 ELSE 1), SPECIAL>>)
    ELSE IF ~IsFinite(b) THEN <<0, 0>>
    ELSE IF b[1] = 0 THEN (IF a[1] = 0 THEN <<0, SPECIAL>> ELSE <<Sign(a[1]), SPECIAL>>)
    ELSE DivDigits(Sign(a[1]) * Sign(b[1]), Abs(a[1]), Abs(b[1]), a[2] - b[2],
                   MANTISSA_DIGITS + 2 + BitLen(Abs(b[1])) - BitLen(Abs(a[1])))

\* the position just above the leading bit of a finite non-zero value
Top(a) == a[2] + BitLen(Abs(a[1]))

\* a finite value in units of 2^w, truncated toward zero: <<integer, inexact>>
Scaled(a, w) ==
    IF a[2] >= w THEN <<Abs(a[1]) * 2 ^ (a[2] - w), FALSE>>
    ELSE IF w - a[2] > MANTISSA_DIGITS THEN <<0, TRUE>>
    ELSE <<Abs(a[1]) \div 2 ^ (w - a[2]), Abs(a[1]) % 2 ^ (w - a[2]) # 0>>

FGt(a, b) ==
    IF IsNaN(a) \/ IsNaN(b) THEN FALSE
    ELSE IF ~IsFinite(a) THEN a[1] > 0 /\ a # b
    ELSE IF ~IsFinite(b) THEN b[1] < 0
    ELSE IF Sign(a[1]) # Sign(b[1]) THEN Sign(a[1]) > Sign(b[1])
    ELSE IF a[1] = 0 THEN FALSE
    ELSE IF Top(a) # Top(b) THEN (Top(a) > Top(b)) = (a[1] > 0)
    ELSE (Scaled(a, Top(a) - MANTISSA_DIGITS)[1] > Scaled(b, Top(a) - MANTISSA_DIGITS)[1])
           = (a[1] > 0)

\* sign * (x - (y and, when sticky, something below its last bit)) * 2^w, rounded
RoundDifference(sign, x, y, w, sticky) ==
    IF ~sticky /\ x < y THEN RoundNE(-sign, y - x, w, FALSE)
    ELSE RoundNE(sign, IF sticky THEN x - y - 1 ELSE x - y, w, sticky)

\* big + small for finite values other than zero, Top(big) >= Top(small), with
\* both in units of 2^w, four digits below the last digit of big's significand
AddAligned(big, small, w) ==
    IF Sign(big[1]) = Sign(small[1])
    THEN RoundNE(Sign(big[1]), Scaled(big, w)[1] + Scaled(small, w)[1], w, Scaled(small, w)[2])
    ELSE RoundDifference(Sign(big[1]), Scaled(big, w)[1], Scaled(small, w)[1], w,
                         Scaled(small, w)[2])

FAdd(a, b) ==
    IF IsNaN(a) \/ IsNaN(b) THEN <<0, SPECIAL>>
    ELSE IF ~IsFinite(a) THEN (IF ~IsFinite(b) /\ a # b THEN <<0, SPECIAL>> ELSE a)
    ELSE IF ~IsFinite(b) THEN b
    ELSE IF a[1] = 0 THEN b
    ELSE IF b[1] = 0 THEN a
    ELSE IF Top(a) >= Top(b) THEN AddAligned(a, b, Top(a) - (MANTISSA_DIGITS + 4))
    ELSE AddAligned(b, a, Top(b) - (MANTISSA_DIGITS + 4))

FSub(a, b) == FAdd(a, FNeg(b))

\* ---------------------------------------------------------------- types.rs / render.rs: HasRatio
inverse_ratio(pair) == FDiv(F32(pair[2]), F32(pair[1]))

\* ---------------------------------------------------------------- vertex.rs
Horizontal(m) == [axis |-> "Horizontal", margin |-> m]
Vertical(m) == [axis |-> "Vertical", margin |-> m]

\* the comparison taken as >=
ViewPortMargin_from_at_least(object_aspect_ratio, viewport_aspect_ratio) ==
    IF ~FGt(viewport_aspect_ratio, object_aspect_ratio)
    THEN Horizontal(FDiv(FSub(F32(1), FDiv(viewport_aspect_ratio, object_aspect_ratio)), F32(2)))
    ELSE Vertical(FDiv(FSub(F32(1), FDiv(object_aspect_ratio, viewport_aspect_ratio)), F32(2)))

\* the quotient added where the code subtracts it
ViewPortMargin_from_added(object_aspect_ratio, viewport_aspect_ratio) ==
    IF FGt(object_aspect_ratio, viewport_aspect_ratio)
    THEN Horizontal(FDiv(FAdd(F32(1), FDiv(viewport_aspect_ratio, object_aspect_ratio)), F32(2)))
    ELSE Vertical(FDiv(FAdd(F32(1), FDiv(object_aspect_ratio, viewport_aspect_ratio)), F32(2)))

\* the quotient taken the other way round
ViewPortMargin_from_inverted(object_aspect_ratio, viewport_aspect_ratio) ==
    IF FGt(object_aspect_ratio, viewport_aspect_ratio)
    THEN Horizontal(FDiv(FSub(F32(1), FDiv(object_aspect_ratio, viewport_aspect_ratio)), F32(2)))
    ELSE Vertical(FDiv(FSub(F32(1), FDiv(viewport_aspect_ratio, object_aspect_ratio)), F32(2)))

\* the margin without the halving (as src/src/viewport.rs computes it)
ViewPortMargin_from_unhalved(object_aspect_ratio, viewport_aspect_ratio) ==
    IF FGt(object_aspect_ratio, viewport_aspect_ratio)
    THEN Horizontal(FSub(F32(1), FDiv(viewport_aspect_ratio, object_aspect_ratio)))
    ELSE Vertical(FSub(F32(1), FDiv(object_aspect_ratio, viewport_aspect_ratio)))

\* the two variants the other way round
ViewPortMargin_from_swapped(object_aspect_ratio, viewport_aspect_ratio) ==
    IF FGt(object_aspect_ratio, viewport_aspect_ratio)
    THEN Vertical(FDiv(FSub(F32(1), FDiv(viewport_aspect_ratio, object_aspect_ratio)), F32(2)))
    ELSE Horizontal(FDiv(FSub(F32(1), FDiv(object_aspect_ratio, viewport_aspect_ratio)), F32(2)))

ViewPortMargin_from(object_aspect_ratio, viewport_aspect_ratio) ==
    IF FGt(object_aspect_ratio, viewport_aspect_ratio)
    THEN Horizontal(FDiv(FSub(F32(1), FDiv(viewport_aspect_ratio, object_aspect_ratio)), F32(2)))
    ELSE Vertical(FDiv(FSub(F32(1), FDiv(object_aspect_ratio, viewport_aspect_ratio)), F32(2)))

Vertex(position, texture_coords) ==
    [position |-> position, texture_coords |-> texture_coords]

\* let (h_margin, v_margin) = match margin { Horizontal(m) => (m, 0.0), Vertical(m) => (0.0, m) }
\* the margin taken for the horizontal axis whatever its variant
h_margin_both(m) == m.margin

h_margin(m) == IF m.axis = "Horizontal" THEN m.margin ELSE F32(0)
v_margin(m) == IF m.axis = "Horizontal" THEN F32(0) ELSE m.margin

\* the same array with the top and the bottom row exchanged
Vertex_from_margin_flipped(left, right, top, bottom) ==
    << Vertex(<<left, bottom>>, <<F32(0), F32(0)>>),
       Vertex(<<right, bottom>>, <<F32(1), F32(0)>>),
       Vertex(<<left, top>>, <<F32(0), F32(1)>>),
       Vertex(<<right, top>>, <<F32(1), F32(1)>>) >>

\* the array Vertex::from returns for the margin it got
Vertex_from_margin(left, right, top, bottom) ==
    << Vertex(<<left, top>>, <<F32(0), F32(0)>>),
       Vertex(<<right, top>>, <<F32(1), F32(0)>>),
       Vertex(<<left, bottom>>, <<F32(0), F32(1)>>),
       Vertex(<<right, bottom>>, <<F32(1), F32(1)>>) >>

\* the margins applied outwards
Vertex_from_outset_margin(m) ==
    Vertex_from_margin(FSub(F32(-1), h_margin(m)), FAdd(F32(1), h_margin(m)),
                       FAdd(F32(1), v_margin(m)), FSub(F32(-1), v_margin(m)))

Vertex_from_inset_margin(m) ==
    Vertex_from_margin(FAdd(F32(-1), h_margin(m)), FSub(F32(1), h_margin(m)),
                       FSub(F32(1), v_margin(m)), FAdd(F32(-1), v_margin(m)))

Vertex_from(image_aspect_ratio, viewport_aspect_ratio) ==
    Vertex_from_inset_margin(ViewPortMargin_from(image_aspect_ratio, viewport_aspect_ratio))

\* render.rs calls the builder as Vertex::get_vertices((object, viewport));
\* the builder in vertex.rs takes the two ratios as separate arguments.
Vertex_get_vertices(aspect_ratios) == Vertex_from(aspect_ratios[1], aspect_ratios[2])

\* the same two triangles, wound clockwise
INDICES_clockwise == <<0, 1, 2, 2, 1, 3>>

INDICES == <<0, 2, 1, 2, 3, 1>>

\* ---------------------------------------------------------------- inputs
ViewSizes == (0..MaxViewDim) \X (0..MaxViewDim)
\* (1,1), (2,1), (1,2), (2,2), (3,1), (1,3), (3,2), (2,3), (3,3), (4,1), ...
FrameSizeRank(w, h) ==
    LET m == IF w > h THEN w ELSE h
    IN  (m - 1) * (m - 1) + (IF h < m THEN 2 * h - 1 ELSE IF w < m THEN 2 * w ELSE 2 * m - 1)

FrameSizes ==
    {p \in (1..MaxFrameSizes) \X (1..MaxFrameSizes) : FrameSizeRank(p[1], p[2]) <= MaxFrameSizes}
Pixels == {"a"}
Frames == [size : FrameSizes, data : Pixels]
SurfaceErrors == {"Timeout", "Lost", "OutOfMemory"}
Colors == {[r |-> 1, g |-> 1, b |-> 1, a |-> 1]}

\* wgpu::Color::default()
Color_default == [r |-> 0, g |-> 0, b |-> 0, a |-> 0]

\* ---------------------------------------------------------------- state
VARIABLES
    surface_size,     \* WgpuFrameRenderContextInit.surface_size the context was built from
    config,           \* self.config (width, height)
    clear_color,      \* self.clear_color
    index_count,      \* self.index_count
    index_buffer,     \* self.index_buffer
    frame_size,       \* self.frame_size
    texture,          \* self.texture
    bind_group,       \* self.bind_group
    vertex_buffer,    \* self.vertex_buffer
    render_pipeline,  \* self.render_pipeline
    device,           \* self.device: how many objects of each kind it has created
    queue,            \* self.queue: the texture write waiting for the next submit
    texture_data,     \* what the last submitted write put into the texture
    first_frame,      \* size of the first frame a draw_frame call pulled
    last,             \* what the latest call did and returned
    vertex_from,      \* a direct call of Vertex::from: its arguments and what it built
    app               \* the example host's App and its event loop (None: no host)

context == <<config, clear_color, index_count, index_buffer,
             frame_size, texture, bind_group, vertex_buffer, render_pipeline>>

vars == <<surface_size, config, clear_color, index_count, index_buffer,
          frame_size, texture, bind_group, vertex_buffer, render_pipeline,
          device, queue, texture_data, first_frame, last, vertex_from, app>>

size == <<config.width, config.height>>

\* What one call did: the items it pulled from the frame source and the frame
\* among them, the GPU objects it created, the outcome of each attempt to
\* acquire the surface texture, the value it returned, the texture write it
\* enqueued, the render passes it submitted and how often it presented.
Call(op, arg, pulls, frame, created, surface, result, write, draws, presents) ==
    [op |-> op, size |-> arg, pulls |-> pulls, frame |-> frame, created |-> created,
     surface |-> surface, result |-> result,
     write |-> write, draws |-> draws, presents |-> presents]

\* ---------------------------------------------------------------- render.rs: helpers
\* the vertices get_vertices asks the builder for, for every frame size and
\* every surface size (@@ <<>> has TLC tabulate the function once)
vertices ==
    [fs \in FrameSizes, vs \in ViewSizes |->
        Vertex_get_vertices(<<inverse_ratio(fs), inverse_ratio(vs)>>)] @@ <<>>

get_vertices_construction_size(fs, cfg_size) ==
    IF fs = None THEN None
    ELSE Some([contents |-> vertices[fs[1], surface_size]])

\* no buffer for a surface without area
get_vertices_positive_size(fs, cfg_size) ==
    IF fs = None \/ cfg_size[1] = 0 \/ cfg_size[2] = 0 THEN None
    ELSE Some([contents |-> vertices[fs[1], cfg_size]])

get_vertices(fs, cfg_size) ==
    IF fs = None THEN None
    ELSE Some([contents |-> vertices[fs[1], cfg_size]])

queue_write_texture_texture_stride(tex, frame) ==
    IF tex = None THEN None
    ELSE Some([texture |-> tex[1].id,
               data |-> frame.data,
               bytes_per_row |-> 4 * tex[1].size[1],
               rows_per_image |-> tex[1].size[2],
               extent |-> tex[1].size])

\* nothing enqueued
queue_write_texture_skipped(tex, frame) == None

queue_write_texture(tex, frame) ==
    IF tex = None THEN None
    ELSE Some([texture |-> tex[1].id,
               data |-> frame.data,
               bytes_per_row |-> 4 * frame.size[1],
               rows_per_image |-> frame.size[2],
               extent |-> tex[1].size])

\* ---------------------------------------------------------------- render.rs: construction
SurfaceConfiguration_transposed(s) == [width |-> s[2], height |-> s[1]]

SurfaceConfiguration(s) == [width |-> s[1], height |-> s[2]]

\* the device as from() got it: it has created none of the lazy objects
request_device ==
    [texture |-> 0, sampler |-> 0, bind_group_layout |-> 0,
     bind_group |-> 0, pipeline_layout |-> 0, shader_module |-> 0,
     render_pipeline |-> 0]

create_index_buffer == [id |-> 1, contents |-> INDICES]

unwrap_or(init_color, default) == IF init_color = None THEN default ELSE init_color[1]

From(init_size, init_color) ==
    /\ surface_size = init_size
    /\ config = SurfaceConfiguration(init_size)
    /\ index_buffer = create_index_buffer
    /\ clear_color = unwrap_or(init_color, Color_default)
    /\ index_count = Len(INDICES)
    /\ texture = None
    /\ bind_group = None
    /\ frame_size = None
    /\ vertex_buffer = None
    /\ render_pipeline = None
    /\ device = request_device
    /\ queue = None
    /\ texture_data = None

\* ---------------------------------------------------------------- render.rs: configure
configure_config(cfg, s) == [cfg EXCEPT !.width = s[1], !.height = s[2]]

\* the geometry of the surface size the call found, not of the one it stored
configure_vertex_buffer_previous_size(vb, fs, cfg_size) ==
    IF vb # None THEN get_vertices(fs, size) ELSE vb

configure_vertex_buffer_kept(vb, fs, cfg_size) == vb

\* a buffer built whether one existed or not, for a square frame when none is recorded
configure_vertex_buffer_eager(vb, fs, cfg_size) ==
    get_vertices(IF fs = None THEN Some(<<1, 1>>) ELSE fs, cfg_size)

configure_vertex_buffer(vb, fs, cfg_size) ==
    IF vb # None THEN get_vertices(fs, cfg_size) ELSE vb

configure_resources_reset ==
    /\ texture' = None
    /\ bind_group' = None
    /\ render_pipeline' = None
    /\ UNCHANGED frame_size

\* the fields configure never assigns
configure_resources ==
    UNCHANGED <<frame_size, texture, bind_group, render_pipeline>>

configure(s) ==
    /\ config' = configure_config(config, s)
    /\ vertex_buffer' = configure_vertex_buffer(vertex_buffer, frame_size,
                            <<config'.width, config'.height>>)
    /\ configure_resources
    /\ last' = Call("configure", Some(s), 0, None,
                    IF vertex_buffer # None /\ vertex_buffer' # None
                    THEN {"vertex_buffer"} ELSE {},
                    <<>>, "Unit", None, <<>>, 0)
    /\ UNCHANGED <<surface_size, clear_color, index_count, index_buffer,
                   device, queue, texture_data, first_frame, vertex_from, app>>

\* ---------------------------------------------------------------- types.rs: init
\* init = from, then configure(instance.size()): no vertex buffer exists yet,
\* so the configure call rewrites the size it read and nothing else.
init_call(instance_size) ==
    Call("init", Some(instance_size), 0, None, {"index_buffer"}, <<>>, "Unit", None, <<>>, 0)

init(init_size, init_color) ==
    /\ From(init_size, init_color)
    /\ first_frame = None
    /\ last = init_call(size)

\* ---------------------------------------------------------------- render.rs: draw_frame
NeedsResources_always(tex, frame) == TRUE

NeedsResources_on_size_change(tex, frame) ==
    tex = None \/ tex[1].size # frame.size

\* match self.texture { None => ..., _ => () }
NeedsResources(tex, frame) == tex = None

create_texture(fs, id) == Some([id |-> id, size |-> fs])

create_bind_group(tex, dev) ==
    Some([id |-> dev.bind_group + 1, layout |-> dev.bind_group_layout + 1,
          texture |-> tex[1].id, sampler |-> dev.sampler + 1])

create_render_pipeline(dev) ==
    Some([id |-> dev.render_pipeline + 1, layout |-> dev.pipeline_layout + 1,
          shader |-> dev.shader_module + 1, front_face |-> "Ccw", cull_mode |-> "Back"])

created_resources(dev) ==
    [texture |-> dev.texture + 1, sampler |-> dev.sampler + 1,
     bind_group_layout |-> dev.bind_group_layout + 1, bind_group |-> dev.bind_group + 1,
     pipeline_layout |-> dev.pipeline_layout + 1, shader_module |-> dev.shader_module + 1,
     render_pipeline |-> dev.render_pipeline + 1]

CreatedOnFirstDraw ==
    {"vertex_buffer", "texture", "sampler", "bind_group_layout", "bind_group",
     "pipeline_layout", "shader_module", "render_pipeline"}

get_current_texture_retried(acquired) ==
    IF acquired = "Ok" THEN <<acquired>> ELSE <<acquired, "Ok">>

\* self.surface.get_current_texture()?: one attempt, whose outcome decides the call
get_current_texture(acquired) == <<acquired>>

render_pass(rp, bg, vb) ==
    [pipeline |-> rp[1].id, bind_group |-> bg[1].id, vertex_buffer |-> vb[1],
     index_buffer |-> index_buffer.id, indices |-> index_count, clear |-> clear_color]

\* frame_provider.next() is asked once: the items the call pulls
next_until_some(item) == IF item = None THEN <<item, item>> ELSE <<item>>

next(item) == <<item>>

draw_frame_nothing_resets ==
    /\ last' = Call("draw_frame", None, Len(next(None)), None, {}, <<>>, "Ok", None, <<>>, 0)
    /\ frame_size' = None
    /\ UNCHANGED <<config, clear_color, index_count, index_buffer,
                   texture, bind_group, vertex_buffer, render_pipeline,
                   surface_size, device, queue, texture_data, first_frame, vertex_from,
                   app>>

\* frame_provider.next() = None => Ok(())
draw_frame_nothing ==
    /\ last' = Call("draw_frame", None, Len(next(None)), None, {}, <<>>, "Ok", None, <<>>, 0)
    /\ UNCHANGED <<context, surface_size, device, queue, texture_data, first_frame,
                   vertex_from, app>>

\* frame_provider.next() = Some(frame), on the context whose surface
\* configuration is cfg and whose vertex buffer is vb
draw_frame_some_on(cfg, vb, frame, acquired) ==
    LET fs1 == Some(frame.size)
        create == NeedsResources(texture, frame)
        vb1 == IF create THEN get_vertices(fs1, <<cfg.width, cfg.height>>) ELSE vb
        tex1 == IF create THEN create_texture(frame.size, device.texture + 1) ELSE texture
        bg1 == IF create THEN create_bind_group(tex1, device) ELSE bind_group
        rp1 == IF create THEN create_render_pipeline(device) ELSE render_pipeline
        write == queue_write_texture(tex1, frame)
        q1 == IF write = None THEN queue ELSE write
        surface == get_current_texture(acquired)
        output == surface[Len(surface)]
        panics == output = "Ok" /\ (rp1 = None \/ bg1 = None \/ vb1 = None)
        drawn == output = "Ok" /\ ~panics
    IN  /\ frame_size' = fs1
        /\ vertex_buffer' = vb1
        /\ texture' = tex1
        /\ bind_group' = bg1
        /\ render_pipeline' = rp1
        /\ device' = IF create THEN created_resources(device) ELSE device
        /\ queue' = IF drawn THEN None ELSE q1
        /\ texture_data' = IF drawn THEN q1 ELSE texture_data
        /\ first_frame' = IF first_frame = None THEN fs1 ELSE first_frame
        /\ last' = Call("draw_frame", None, Len(next(Some(frame))), Some(frame),
                        IF create THEN CreatedOnFirstDraw ELSE {},
                        surface,
                        IF panics THEN "Panic" ELSE output,
                        write,
                        IF drawn THEN <<render_pass(rp1, bg1, vb1)>> ELSE <<>>,
                        IF drawn THEN 1 ELSE 0)
        /\ config' = cfg
        /\ UNCHANGED <<clear_color, index_count, index_buffer>>

draw_frame_some(frame, acquired) ==
    /\ draw_frame_some_on(config, vertex_buffer, frame, acquired)
    /\ UNCHANGED <<surface_size, vertex_from, app>>

draw_frame(item, acquired) ==
    LET pulled == next(item)
    IN  IF pulled[Len(pulled)] = None THEN draw_frame_nothing
        ELSE draw_frame_some(pulled[Len(pulled)][1], acquired)

\* ---------------------------------------------------------------- specification
Acquisitions == {"Ok"} \cup SurfaceErrors
InitColors == {None} \cup {Some(c) : c \in Colors}

\* the size a context is constructed with (a wide window, as the example host
\* opens); configure then reaches every size
InitSizes == {<<MaxViewDim, 1>>}

Init ==
    /\ \E init_size \in InitSizes, init_color \in InitColors : init(init_size, init_color)
    /\ vertex_from = None
    /\ app = None

\* the outcome of the surface acquisition plays no part when nothing is pulled
Next ==
    \/ \E s \in ViewSizes : configure(s)
    \/ draw_frame(None, "Ok")
    \/ \E f \in Frames, acquired \in Acquisitions : draw_frame(Some(f), acquired)

Spec == Init /\ [][Next]_vars

\* ---------------------------------------------------------------- vertex.rs called on its own
\* Vertex::from on the aspect ratios (inverse_ratio, height / width) of an image
\* size and a viewport size: the sizes are drawn at the start, the call
\* records the margin ViewPortMargin::from returned to it and the vertices.
AspectSamples == {<<800, 600>>, <<16, 9>>, <<1, 8192>>, <<8192, 1>>, <<4096, 1>>}
AspectSizes == ((1..MaxAspectDim) \X (1..MaxAspectDim)) \cup AspectSamples

Vertex_from_call ==
    /\ vertex_from.vertices = None
    /\ LET image_aspect_ratio == inverse_ratio(vertex_from.image)
           viewport_aspect_ratio == inverse_ratio(vertex_from.viewport)
       IN  vertex_from' =
               [vertex_from EXCEPT
                  !.margin = Some(ViewPortMargin_from(image_aspect_ratio, viewport_aspect_ratio)),
                  !.vertices = Some(Vertex_from(image_aspect_ratio, viewport_aspect_ratio))]
    /\ UNCHANGED <<context, surface_size, device, queue, texture_data, first_frame, last,
                   app>>

InitVertex ==
    /\ \E init_size \in InitSizes : init(init_size, None)
    /\ vertex_from \in [image : AspectSizes, viewport : AspectSizes,
                         margin : {None}, vertices : {None}]
    /\ app = None

NextVertex == Vertex_from_call

SpecVertex == InitVertex /\ [][NextVertex]_vars

\* ---------------------------------------------------------------- examples/image_viewer.rs
\* The example host: its App (window, render_context, frame_provider) and what
\* the event loop keeps for it: whether a redraw is requested for the window,
\* whether event_loop.exit() was called, whether the loop is over, whether a
\* context has been dropped so far, and what the latest handler did.  While App.render_context is None the variables of the
\* context are None.
Handled(handler, event, calls, returned, redraws, exits) ==
    [handler |-> handler, event |-> event, calls |-> calls, returned |-> returned,
     request_redraw |-> redraws, exit |-> exits]

\* the context calls a handler made: the operation, its size argument, its result
ContextCall(op, arg, result) == [op |-> op, size |-> arg, result |-> result]

WgpuImageProvider_new(image) == [size |-> image.size, image_buffer |-> image.data]

\* Iterator::next of &WgpuImageProvider: always a frame
WgpuImageProvider_next(provider) ==
    Some([size |-> provider.size, data |-> provider.image_buffer])

no_call == Call("none", None, 0, None, {}, <<>>, "Unit", None, <<>>, 0)

\* App::default() in App::run, before the event loop delivers anything
App_default ==
    [window |-> None, render_context |-> None, frame_provider |-> None,
     redraw |-> FALSE, exit |-> FALSE, done |-> FALSE, dropped |-> FALSE,
     handled |-> Handled("run", None, <<>>, "Unit", 0, FALSE)]

WindowIds == {"xixi", "other"}
\* the sizes of Resized events: a minimised window, and every width
ResizedSizes == {<<0, 0>>} \cup {s \in ViewSizes : s[1] > 0 /\ s[2] = 1}
WindowEvents ==
    {[kind |-> k, size |-> None] : k \in {"CloseRequested", "Escape", "RedrawRequested", "Other"}}
      \cup {[kind |-> "Resized", size |-> Some(s)] : s \in ResizedSizes}

has_window(window_id) == app.window # None /\ app.window[1] = window_id

\* self.render_context = None drops the context and every object it owns
drop_render_context ==
    /\ surface_size' = None /\ config' = None /\ clear_color' = None
    /\ index_count' = None /\ index_buffer' = None /\ frame_size' = None
    /\ texture' = None /\ bind_group' = None /\ vertex_buffer' = None
    /\ render_pipeline' = None /\ device' = None /\ queue' = None
    /\ texture_data' = None /\ first_frame' = None
    /\ last' = no_call

\* the window and the frame provider cleared, the context kept
App_clear_keeps_context(handler) ==
    /\ app' = [app EXCEPT !.window = None, !.frame_provider = None,
                          !.redraw = FALSE,
                          !.done = handler = "exiting",
                          !.handled = Handled(handler, None, <<>>, "Unit", 0, FALSE)]
    /\ UNCHANGED <<context, surface_size, device, queue, texture_data, first_frame, last,
                   vertex_from>>

App_clear(handler) ==
    /\ drop_render_context
    /\ app' = [app EXCEPT !.window = None, !.render_context = None, !.frame_provider = None,
                          !.redraw = FALSE,
                          !.done = handler = "exiting",
                          !.dropped = @ \/ app.render_context # None,
                          !.handled = Handled(handler, None, <<>>, "Unit", 0, FALSE)]
    /\ UNCHANGED vertex_from

\* a resumed that makes the window and the context and leaves the frame
\* provider as it was
App_resumed_without_provider(window_size, image) ==
    /\ ~app.exit /\ ~app.done
    /\ surface_size' = window_size
    /\ config' = SurfaceConfiguration(window_size)
    /\ index_buffer' = create_index_buffer
    /\ clear_color' = unwrap_or(None, Color_default)
    /\ index_count' = Len(INDICES)
    /\ texture' = None /\ bind_group' = None /\ frame_size' = None
    /\ vertex_buffer' = None /\ render_pipeline' = None
    /\ device' = request_device
    /\ queue' = None /\ texture_data' = None /\ first_frame' = None
    /\ last' = init_call(window_size)
    /\ app' = [app EXCEPT !.window = Some("xixi"),
                          !.render_context = Some("render_context"),
                          !.redraw = TRUE,
                          !.handled = Handled("resumed", None,
                                              <<ContextCall("init", Some(window_size), "Unit")>>,
                                              "Unit", 1, FALSE)]
    /\ UNCHANGED vertex_from

\* ApplicationHandler::resumed: a window with a redraw requested, a frame
\* provider for the image, and a context from init for the window's size
App_resumed(window_size, image) ==
    /\ ~app.exit /\ ~app.done
    /\ surface_size' = window_size
    /\ config' = SurfaceConfiguration(window_size)
    /\ index_buffer' = create_index_buffer
    /\ clear_color' = unwrap_or(None, Color_default)
    /\ index_count' = Len(INDICES)
    /\ texture' = None /\ bind_group' = None /\ frame_size' = None
    /\ vertex_buffer' = None /\ render_pipeline' = None
    /\ device' = request_device
    /\ queue' = None /\ texture_data' = None /\ first_frame' = None
    /\ last' = init_call(window_size)
    /\ app' = [app EXCEPT !.window = Some("xixi"),
                          !.frame_provider = Some(WgpuImageProvider_new(image)),
                          !.render_context = Some("render_context"),
                          !.redraw = TRUE,
                          !.handled = Handled("resumed", None,
                                              <<ContextCall("init", Some(window_size), "Unit")>>,
                                              "Unit", 1, FALSE)]
    /\ UNCHANGED vertex_from

App_exiting == app.exit /\ ~app.done /\ App_clear("exiting")

App_suspended == ~app.done /\ App_clear("suspended")

\* the fatal outcome returned like every other error
App_render_result_never_fatal(result) ==
    IF result = "Ok" THEN "Ok"
    ELSE IF result = "Panic" THEN "Panic"
    ELSE "Err(false)"

\* what App::render returns for the outcome of draw_frame
App_render_result(result) ==
    IF result = "Ok" THEN "Ok"
    ELSE IF result = "OutOfMemory" THEN "Err(true)"
    ELSE IF result = "Panic" THEN "Panic"
    ELSE "Err(false)"

\* the handler did nothing to the context and returned: the redraw request
\* that brought a RedrawRequested event is used up
App_handled(event, returned, exits) ==
    /\ app' = [app EXCEPT !.redraw = @ /\ ~(event.kind = "RedrawRequested" /\ has_window("xixi")),
                          !.exit = @ \/ exits,
                          !.done = @ \/ returned = "Panic",
                          !.handled = Handled("window_event", event, <<>>, returned, 0, exits)]
    /\ UNCHANGED <<context, surface_size, device, queue, texture_data, first_frame, last,
                   vertex_from>>

\* App::render on the context as the calls before it left it (cfg, vb), as
\* window_event uses its result: Err(true) => event_loop.exit()
App_render(cfg, vb, event, calls, acquired) ==
    IF app.render_context = None THEN App_handled(event, "Ok", FALSE)
    ELSE IF app.frame_provider = None \/ app.window = None THEN App_handled(event, "Panic", FALSE)
    ELSE /\ draw_frame_some_on(cfg, vb, WgpuImageProvider_next(app.frame_provider[1])[1],
                               acquired)
         /\ app' = [app EXCEPT
                      !.redraw = (@ /\ event.kind # "RedrawRequested") \/ last'.result = "Ok",
                      !.exit = @ \/ App_render_result(last'.result) = "Err(true)",
                      !.done = @ \/ last'.result = "Panic",
                      !.handled =
                          Handled("window_event", event,
                                  Append(calls, ContextCall("draw_frame", None, last'.result)),
                                  App_render_result(last'.result),
                                  IF last'.result = "Ok" THEN 1 ELSE 0,
                                  App_render_result(last'.result) = "Err(true)")]
         /\ UNCHANGED <<surface_size, vertex_from>>

\* App::resize: configure(size), then render
App_resize(new_size, event, acquired) ==
    IF app.render_context = None THEN App_handled(event, "Ok", FALSE)
    ELSE App_render(configure_config(config, new_size),
                    configure_vertex_buffer(vertex_buffer, frame_size, new_size),
                    event, <<ContextCall("configure", Some(new_size), "Unit")>>, acquired)

\* ApplicationHandler::window_event
App_window_event(window_id, event, acquired) ==
    /\ ~app.done
    /\ IF ~has_window(window_id) THEN App_handled(event, "Unit", FALSE)
       ELSE IF event.kind \in {"CloseRequested", "Escape"} THEN App_handled(event, "Unit", TRUE)
       ELSE IF event.kind = "Resized" THEN App_resize(event.size[1], event, acquired)
       ELSE IF event.kind = "RedrawRequested"
            THEN App_render(config, vertex_buffer, event, <<>>, acquired)
       ELSE App_handled(event, "Unit", FALSE)

\* the frame the host's image decodes to: a square one or the next size
Images == {image \in Frames : FrameSizeRank(image.size[1], image.size[2]) <= 2}

\* the outcome of the surface acquisition plays no part in a handler that does
\* not draw
AcquisitionsFor(window_id, event) ==
    IF has_window(window_id) /\ event.kind \in {"Resized", "RedrawRequested"}
    THEN Acquisitions ELSE {"Ok"}

InitHost ==
    /\ app = App_default
    /\ surface_size = None /\ config = None /\ clear_color = None
    /\ index_count = None /\ index_buffer = None /\ frame_size = None
    /\ texture = None /\ bind_group = None /\ vertex_buffer = None
    /\ render_pipeline = None /\ device = None /\ queue = None
    /\ texture_data = None /\ first_frame = None
    /\ last = no_call
    /\ vertex_from = None

NextHost ==
    \/ \E window_size \in InitSizes, image \in Images : App_resumed(window_size, image)
    \/ App_suspended
    \/ App_exiting
    \/ \E window_id \in WindowIds, event \in WindowEvents :
           \E acquired \in AcquisitionsFor(window_id, event) :
               App_window_event(window_id, event, acquired)

SpecHost == InitHost /\ [][NextHost]_vars

\* ================================================================ claims
Resourced == texture # None
Configured ==
    /\ texture = None /\ bind_group = None /\ render_pipeline = None
    /\ vertex_buffer = None /\ frame_size = None

\* exact arithmetic on the values f32 numbers stand for: a rational is <<n, d>>
\* in lowest terms with d > 0
GcdOf[a \in Nat, b \in Nat] == IF b = 0 THEN a ELSE GcdOf[b, a % b]
Gcd(a, b) == GcdOf[a, b]
Norm(n, d) ==
    LET g == Gcd(Abs(n), Abs(d))
    IN  <<Sign(d) * (n \div g), Abs(d) \div g>>
\* a finite f32 as a rational, and the sum, difference and product of rationals
Rat(a) == IF a[2] >= 0 THEN <<a[1] * 2 ^ a[2], 1>> ELSE <<a[1], 2 ^ (-a[2])>>
RAdd(a, b) == Norm(a[1] * b[2] + b[1] * a[2], a[2] * b[2])
RSub(a, b) == Norm(a[1] * b[2] - b[1] * a[2], a[2] * b[2])
RMul(a, b) == Norm(a[1] * b[1], a[2] * b[2])
\* n1/d1 < n2/d2 for rationals that are not negative, by continued fractions
CfLessOf[n1 \in Nat, d1 \in Nat, n2 \in Nat, d2 \in Nat] ==
    IF n1 \div d1 # n2 \div d2 THEN n1 \div d1 < n2 \div d2
    ELSE IF n2 % d2 = 0 THEN FALSE
    ELSE IF n1 % d1 = 0 THEN TRUE
    ELSE CfLessOf[d2, n2 % d2, d1, n1 % d1]
RLt(a, b) ==
    IF a[1] < 0 THEN (IF b[1] < 0 THEN CfLessOf[-b[1], b[2], -a[1], a[2]] ELSE TRUE)
    ELSE IF b[1] < 0 THEN FALSE
    ELSE CfLessOf[a[1], a[2], b[1], b[2]]
IsPow2(n) == n > 0 /\ n = 2 ^ (BitLen(n) - 1)

\* the quad built from frame size fs and viewport size vs, as render.rs asks for it
Quad(fs, vs) == vertices[fs, vs]

\* margins read back from a quad: its top-left corner is (-1 + h, 1 - v)
hMargin(quad) == RAdd(Rat(quad[1].position[1]), <<1, 1>>)
vMargin(quad) == RSub(<<1, 1>>, Rat(quad[1].position[2]))

\* vh * (1 - vMargin) * fw = vw * (1 - hMargin) * fh
AspectPreserved(quad, fs, vs) ==
    RMul(RMul(<<vs[2], 1>>, RSub(<<1, 1>>, vMargin(quad))), <<fs[1], 1>>)
      = RMul(RMul(<<vs[1], 1>>, RSub(<<1, 1>>, hMargin(quad))), <<fs[2], 1>>)

\* C1: once the context is Resourced, a configure call leaves texture, bind group
\* (with its sampler) and render pipeline the very objects they were and has the
\* device create nothing but a new vertex buffer.
C1_ResizeOnly ==
    [][(last'.op = "configure" /\ Resourced)
         => /\ texture' = texture
            /\ bind_group' = bind_group
            /\ render_pipeline' = render_pipeline
            /\ device' = device
            /\ texture'[1].id = 1 /\ bind_group'[1].id = 1 /\ bind_group'[1].sampler = 1
            /\ render_pipeline'[1].id = 1
            /\ last'.created = {"vertex_buffer"}]_vars

\* a configure that replaced the vertex buffer of a context that has drawn, with
\* a quad other than the full square
C1_Witness ==
    /\ last.op = "configure" /\ last.created = {"vertex_buffer"}
    /\ Resourced /\ texture_data # None
    /\ size # surface_size
    /\ vertex_buffer[1].contents # Quad(<<1, 1>>, <<1, 1>>)

\* C2: over any interleaving of configure and draw_frame, the device creates the
\* texture, the sampler, the bind group and the render pipeline at most once, and
\* a draw_frame on a context that has them creates nothing: it enqueues the upload
\* and, when the surface is acquired, submits one draw.
C2_CreatedAtMostOnce ==
    /\ device.texture <= 1 /\ device.sampler <= 1
    /\ device.bind_group <= 1 /\ device.render_pipeline <= 1
    /\ (last.op = "draw_frame" /\ last.frame # None /\ last.created = {})
         => /\ last.write # None
            /\ last.result = "Ok" => Len(last.draws) = 1

\* a later draw_frame, with a frame of another size than the texture, that drew
C2_Witness ==
    /\ last.op = "draw_frame" /\ last.frame # None /\ last.created = {}
    /\ last.result = "Ok"
    /\ device.texture = 1 /\ device.render_pipeline = 1
    /\ last.frame[1].size # texture[1].size

\* C3: a vertex buffer just built from a frame size and a viewport size, all four
\* dimensions positive, has the frame's aspect ratio when measured in viewport
\* pixels.
C3_AspectRatioPreserved ==
    ("vertex_buffer" \in last.created /\ config.width > 0 /\ config.height > 0)
        => /\ vertex_buffer[1].contents
                = Vertex_from(inverse_ratio(frame_size[1]), inverse_ratio(size))
           /\ AspectPreserved(Vertex_from(inverse_ratio(frame_size[1]), inverse_ratio(size)),
                              frame_size[1], size)

\* C4: every draw that draw_frame submits uses the quad computed from the size of
\* the frame drawn in that call and the current surface size.
C4_NoStaleGeometry ==
    (last.op = "draw_frame" /\ Len(last.draws) = 1)
        => last.draws[1].vertex_buffer.contents = Quad(last.frame[1].size, size)

\* C5: a draw_frame that pulls nothing returns Ok, submits and presents nothing
\* and changes no field of the context, nothing in the device, the queue or the
\* texture.
C5_NoFrameNoChange ==
    [][(last'.op = "draw_frame" /\ last'.frame = None)
         => /\ last'.result = "Ok"
            /\ last'.draws = <<>> /\ last'.presents = 0 /\ last'.surface = <<>>
            /\ last'.created = {} /\ last'.write = None
            /\ UNCHANGED <<context, device, queue, texture_data>>]_vars

\* nothing pulled on a context that holds resources and an uploaded image
C5_Witness ==
    /\ last.op = "draw_frame" /\ last.frame = None
    /\ Resourced /\ texture_data # None /\ frame_size # Some(texture[1].size)

\* C6: the first draw_frame that pulls a frame on a Configured context leaves it
\* Resourced, its texture of that frame's size and its vertex buffer the quad of
\* that frame's size and the surface size current at the call.
C6_FirstDraw ==
    [][(Configured /\ last'.op = "draw_frame" /\ last'.frame # None)
         => /\ texture' # None /\ bind_group' # None /\ render_pipeline' # None
            /\ frame_size' = Some(last'.frame[1].size)
            /\ texture'[1].size = last'.frame[1].size
            /\ vertex_buffer' = Some([contents |-> Quad(last'.frame[1].size, size)])]_vars

\* a first draw after a configure that changed the geometry
C6_Witness ==
    /\ last.op = "draw_frame" /\ "texture" \in last.created
    /\ Resourced
    /\ size # surface_size
    /\ vertex_buffer[1].contents # Quad(last.frame[1].size, surface_size)

\* C7: the texture of a Resourced context always has the size of the first frame
\* that was pulled.
C7_TextureSizeFixed ==
    Resourced => first_frame # None /\ texture[1].size = first_frame[1]

\* a later frame of another size was drawn and the surface was resized
C7_Witness ==
    /\ Resourced /\ frame_size # Some(texture[1].size)
    /\ texture_data # None /\ texture_data[1].rows_per_image # texture[1].size[2]
    /\ size # surface_size

\* C8: a draw_frame that pulls a frame and fails to acquire the surface leaves
\* the context and the texture contents as they were.
C8_FailedDrawNoChange ==
    [][(last'.op = "draw_frame" /\ last'.frame # None /\ last'.result \in SurfaceErrors)
         => UNCHANGED <<context, texture_data>>]_vars

\* C9: in the Resourced state a frame of another size than the texture is not
\* rejected: the texture stays, the write has row stride 4 x the frame's width,
\* the frame's height as rows and the texture's size as extent, and when the
\* surface is acquired the draw is submitted and the call returns Ok.
C9_SizeMismatchAccepted ==
    [][(Resourced /\ last'.op = "draw_frame" /\ last'.frame # None
          /\ last'.frame[1].size # texture[1].size)
         => /\ texture' = texture
            /\ last'.write = Some([texture |-> texture[1].id,
                                   data |-> last'.frame[1].data,
                                   bytes_per_row |-> 4 * last'.frame[1].size[1],
                                   rows_per_image |-> last'.frame[1].size[2],
                                   extent |-> texture[1].size])
            /\ last'.surface[1] = "Ok"
                 => /\ last'.result = "Ok"
                    /\ Len(last'.draws) = 1 /\ last'.presents = 1
                    /\ texture_data' = last'.write]_vars

\* a narrower frame than the texture was uploaded and drawn
C9_Witness ==
    /\ last.op = "draw_frame" /\ last.frame # None
    /\ last.created = {} /\ last.result = "Ok"
    /\ Resourced /\ last.frame[1].size[1] < texture[1].size[1]
    /\ texture_data = last.write

\* C10: a draw_frame call tries to acquire the surface at most once, and when
\* the attempt fails it returns that error, submits nothing and presents nothing.
C10_NoRetry ==
    last.op = "draw_frame"
        => /\ Len(last.surface) <= 1
           /\ (last.surface # <<>> /\ last.surface[1] \in SurfaceErrors)
                => /\ last.result = last.surface[1]
                   /\ last.draws = <<>> /\ last.presents = 0

\* a failed acquisition on a context that has drawn before
C10_Witness ==
    /\ last.op = "draw_frame" /\ last.surface = <<"Lost">> /\ last.result = "Lost"
    /\ texture_data # None /\ queue # None

\* C11: every draw_frame call pulls exactly one item from the frame source,
\* whether the item is a frame or nothing and whether the draw succeeds or fails.
C11_OnePull == last.op = "draw_frame" => last.pulls = 1

\* a draw_frame call that pulled a frame and failed to acquire the surface texture
C11_Witness ==
    /\ last.op = "draw_frame" /\ last.frame # None
    /\ last.result \in SurfaceErrors /\ last.pulls = 1 /\ Resourced

\* C12: configure(s) leaves the surface configuration at size s in every state,
\* and when the resources exist the same call has replaced the vertex buffer by
\* the quad of the recorded frame size and s.
C12_ConfigureSetsSizeAndGeometry ==
    last.op = "configure"
        => /\ size = last.size[1]
           /\ Resourced => /\ last.created = {"vertex_buffer"}
                           /\ vertex_buffer = Some([contents |-> Quad(frame_size[1], last.size[1])])

\* a configure call on a Resourced context whose new size changed the quad
C12_Witness ==
    /\ last.op = "configure" /\ Resourced /\ config.width > 0 /\ config.height > 0
    /\ size # surface_size
    /\ vertex_buffer[1].contents # Quad(frame_size[1], surface_size)
    /\ vertex_buffer[1].contents = Quad(frame_size[1], size)

\* C13: configure is idempotent: a configure(s) call directly after a
\* configure(s) call leaves the surface configuration and the vertex-buffer
\* contents as the first call left them.
C13_ConfigureIdempotent ==
    [][(last.op = "configure" /\ last'.op = "configure" /\ last'.size = last.size)
         => config' = config /\ vertex_buffer' = vertex_buffer]_vars

\* the state after configure(s) on a Resourced context with a quad of its own,
\* in which another configure(s) stores the same configuration and vertices
C13_Witness ==
    /\ last.op = "configure" /\ Resourced /\ config.width > 0 /\ config.height > 0
    /\ vertex_buffer[1].contents # Quad(<<1, 1>>, <<1, 1>>)
    /\ configure_config(config, last.size[1]) = config
    /\ configure_vertex_buffer(vertex_buffer, frame_size, last.size[1]) = vertex_buffer

\* C14: in every reachable state of a constructed context the surface
\* configuration's width and height are both greater than zero, whatever sizes
\* are passed to configure.
C14_ConfigSizePositive == config.width > 0 /\ config.height > 0

\* C15: directly after construction through init the context is Configured:
\* the surface configuration has the width and height of the initial surface
\* size, and texture, bind group, render pipeline, vertex buffer and recorded
\* frame size are all absent.
C15_InitConfigured ==
    last.op = "init"
        => /\ config.width = surface_size[1] /\ config.height = surface_size[2]
           /\ texture = None /\ bind_group = None /\ render_pipeline = None
           /\ vertex_buffer = None /\ frame_size = None

\* the state init returns for a surface that is wider than high
C15_Witness ==
    /\ last.op = "init" /\ last.size = Some(surface_size)
    /\ config.width > config.height /\ config.height > 0 /\ Configured

\* the image and viewport sizes of the recorded Vertex::from call, their aspect
\* ratios as the call received them, and the margin it was given
ObjectAspect == inverse_ratio(vertex_from.image)
ViewportAspect == inverse_ratio(vertex_from.viewport)
Margin == vertex_from.margin[1]
\* (1 - vh*ow / (vw*oh)) / 2 and (1 - oh*vw / (ow*vh)) / 2 over the sizes, exactly
ExactHorizontal ==
    Norm(vertex_from.viewport[1] * vertex_from.image[2]
           - vertex_from.viewport[2] * vertex_from.image[1],
         2 * vertex_from.viewport[1] * vertex_from.image[2])
ExactVertical ==
    Norm(vertex_from.image[1] * vertex_from.viewport[2]
           - vertex_from.image[2] * vertex_from.viewport[1],
         2 * vertex_from.image[1] * vertex_from.viewport[2])
\* the two aspect ratios are the exact quotients of the sizes, and the exact
\* margin q is a multiple of 2^-24: no f32 operation of the computation rounds
NothingRounds(q) ==
    /\ Rat(ObjectAspect) = Norm(vertex_from.image[2], vertex_from.image[1])
    /\ Rat(ViewportAspect) = Norm(vertex_from.viewport[2], vertex_from.viewport[1])
    /\ IsPow2(q[2]) /\ q[2] <= 2 ^ MANTISSA_DIGITS

\* C16: for positive aspect ratios (height / width of the bounded sizes) the fit
\* returns Horizontal((1 - viewportAspect/objectAspect)/2) when objectAspect >
\* viewportAspect and Vertical((1 - objectAspect/viewportAspect)/2) otherwise;
\* a frame of 800x600 in a viewport of 16x9 gives Horizontal(0.125).
C16_FitFormula ==
    vertex_from.margin # None
        => /\ IF RLt(Rat(ViewportAspect), Rat(ObjectAspect))
              THEN /\ Margin = Horizontal(FDiv(FSub(F32(1), FDiv(ViewportAspect, ObjectAspect)),
                                               F32(2)))
                   /\ NothingRounds(ExactHorizontal) => Rat(Margin.margin) = ExactHorizontal
              ELSE /\ Margin = Vertical(FDiv(FSub(F32(1), FDiv(ObjectAspect, ViewportAspect)),
                                             F32(2)))
                   /\ NothingRounds(ExactVertical) => Rat(Margin.margin) = ExactVertical
           /\ (vertex_from.image = <<800, 600>> /\ vertex_from.viewport = <<16, 9>>)
                  => Margin = Horizontal(<<1, -3>>)

\* the call for a frame of 800x600 in a viewport of 16x9 returned Horizontal(1/8)
C16_Witness ==
    /\ vertex_from.margin # None
    /\ vertex_from.image = <<800, 600>> /\ vertex_from.viewport = <<16, 9>>
    /\ Margin.axis = "Horizontal" /\ Rat(Margin.margin) = <<1, 8>>
    /\ NothingRounds(ExactHorizontal)

\* C17: the margin is bounded: for a_obj > a_view > 0 the fit returns
\* Horizontal(m) with 0 <= m < 0.5, and for 0 < a_obj < a_view it returns
\* Vertical(m) with 0 <= m < 0.5.
C17_MarginBelowHalf ==
    vertex_from.margin # None
        => /\ RLt(Rat(ViewportAspect), Rat(ObjectAspect))
                => /\ Margin.axis = "Horizontal"
                   /\ Margin.margin[1] >= 0 /\ RLt(Rat(Margin.margin), <<1, 2>>)
           /\ RLt(Rat(ObjectAspect), Rat(ViewportAspect))
                => /\ Margin.axis = "Vertical"
                   /\ Margin.margin[1] >= 0 /\ RLt(Rat(Margin.margin), <<1, 2>>)

\* C17 (amended): the same with 0 <= m <= 0.5: the f32 subtraction 1 - q
\* rounds to 1 when the quotient q of the aspect ratios is 2^-25 or less, and
\* the margin is then 0.5 itself.
C17_MarginAtMostHalf ==
    vertex_from.margin # None
        => /\ RLt(Rat(ViewportAspect), Rat(ObjectAspect))
                => /\ Margin.axis = "Horizontal"
                   /\ Margin.margin[1] >= 0 /\ ~RLt(<<1, 2>>, Rat(Margin.margin))
           /\ RLt(Rat(ObjectAspect), Rat(ViewportAspect))
                => /\ Margin.axis = "Vertical"
                   /\ Margin.margin[1] >= 0 /\ ~RLt(<<1, 2>>, Rat(Margin.margin))

\* a frame of 1x8192 in a viewport of 8192x1: the margin is Horizontal(0.5)
C17_Witness ==
    /\ vertex_from.margin # None
    /\ RLt(Rat(ViewportAspect), Rat(ObjectAspect))
    /\ Margin = Horizontal(<<1, -1>>)

\* a1/b1 < a2/b2, exactly, for finite f32 values greater than zero: each
\* quotient is x * 2^t with x the quotient of the significands, 1/2 < x < 2
Significand(a) == a[1] * 2 ^ (MANTISSA_DIGITS - BitLen(a[1]))
QuotientLess(a1, b1, a2, b2) ==
    LET t1 == Top(a1) - Top(b1)
        t2 == Top(a2) - Top(b2)
    IN  IF t1 + 2 <= t2 THEN TRUE
        ELSE IF t2 + 2 <= t1 THEN FALSE
        ELSE IF t1 < t2
             THEN CfLessOf[Significand(a1), Significand(b1), 2 * Significand(a2), Significand(b2)]
        ELSE IF t2 < t1
             THEN CfLessOf[2 * Significand(a1), Significand(b1), Significand(a2), Significand(b2)]
        ELSE CfLessOf[Significand(a1), Significand(b1), Significand(a2), Significand(b2)]

\* the aspect ratio of every size, and the fit of every pair of sizes
AspectOf == [s \in AspectSizes |-> inverse_ratio(s)] @@ <<>>
FitOf ==
    [o \in AspectSizes, v \in AspectSizes |-> ViewPortMargin_from(AspectOf[o], AspectOf[v])] @@ <<>>

\* the pairs whose object aspect ratio is the greater one and whose quotient
\* a_obj / a_view is strictly smaller than that of the recorded call
SmallerQuotients ==
    {p \in AspectSizes \X AspectSizes :
        /\ RLt(Rat(AspectOf[p[2]]), Rat(AspectOf[p[1]]))
        /\ QuotientLess(AspectOf[p[1]], AspectOf[p[2]], ObjectAspect, ViewportAspect)}

\* C18: monotonicity: of two input pairs with a_obj > a_view > 0, the one with
\* the strictly larger a_obj / a_view gets the strictly larger Horizontal margin.
C18_StrictlyMonotone ==
    (vertex_from.margin # None /\ RLt(Rat(ViewportAspect), Rat(ObjectAspect)))
        => \A p \in SmallerQuotients :
              /\ Margin.axis = "Horizontal" /\ FitOf[p].axis = "Horizontal"
              /\ RLt(Rat(FitOf[p].margin), Rat(Margin.margin))

\* C18 (amended): the pair with the strictly larger a_obj / a_view gets a
\* Horizontal margin that is larger or equal: f32 rounding makes the margins of
\* different quotients equal, it never reverses their order.
C18_Monotone ==
    (vertex_from.margin # None /\ RLt(Rat(ViewportAspect), Rat(ObjectAspect)))
        => \A p \in SmallerQuotients :
              /\ Margin.axis = "Horizontal" /\ FitOf[p].axis = "Horizontal"
              /\ ~RLt(Rat(Margin.margin), Rat(FitOf[p].margin))

\* a call whose quotient is larger than that of another pair, with the same margin
C18_Witness ==
    /\ vertex_from.margin # None /\ RLt(Rat(ViewportAspect), Rat(ObjectAspect))
    /\ \E p \in SmallerQuotients : FitOf[p] = Margin
    /\ \E p \in SmallerQuotients : RLt(Rat(FitOf[p].margin), Rat(Margin.margin))

\* the corners of the whole [-1, 1] square, top-left, top-right, bottom-left,
\* bottom-right
FullSquare == << <<F32(-1), F32(1)>>, <<F32(1), F32(1)>>, <<F32(-1), F32(-1)>>, <<F32(1), F32(-1)>> >>

\* C19: for equal positive aspect ratios the fit returns a margin of exactly 0,
\* always as Vertical, and the quad covers the whole [-1, 1] square.
C19_EqualRatiosNoMargin ==
    (vertex_from.margin # None /\ ObjectAspect = ViewportAspect)
        => /\ Margin = Vertical(F32(0))
           /\ [i \in 1..4 |-> vertex_from.vertices[1][i].position] = FullSquare

\* a call for an image and a viewport of different sizes and the same aspect ratio
C19_Witness ==
    /\ vertex_from.margin # None /\ ObjectAspect = ViewportAspect
    /\ vertex_from.image # vertex_from.viewport
    /\ Margin.margin = F32(0)

\* -1 <= c <= 1 for a finite f32 value c
InUnitRange(c) == ~RLt(Rat(c), <<-1, 1>>) /\ ~RLt(<<1, 1>>, Rat(c))

\* C20: for positive aspect ratios the vertex builder returns exactly four
\* vertices, every x and y within [-1, 1], the corners of a rectangle centred
\* on the origin in the order top-left, top-right, bottom-left, bottom-right,
\* with the texture coordinates (0,0), (1,0), (0,1), (1,1) in that order.
C20_CentredQuad ==
    vertex_from.vertices # None
        => LET v == vertex_from.vertices[1]
               left == v[1].position[1]
               top == v[1].position[2]
           IN  /\ Len(v) = 4
               /\ \A i \in 1..4 : InUnitRange(v[i].position[1]) /\ InUnitRange(v[i].position[2])
               /\ RLt(Rat(left), <<0, 1>>) /\ RLt(<<0, 1>>, Rat(top))
               /\ v[1].position = <<left, top>>
               /\ v[2].position = <<FNeg(left), top>>
               /\ v[3].position = <<left, FNeg(top)>>
               /\ v[4].position = <<FNeg(left), FNeg(top)>>
               /\ [i \in 1..4 |-> v[i].texture_coords]
                    = << <<F32(0), F32(0)>>, <<F32(1), F32(0)>>,
                         <<F32(0), F32(1)>>, <<F32(1), F32(1)>> >>

\* a call that inset the quad on the vertical axis by a margin that f32 rounds
C20_Witness ==
    /\ vertex_from.vertices # None
    /\ Margin.axis = "Vertical" /\ Margin.margin # F32(0)
    /\ ~NothingRounds(ExactVertical)
    /\ vertex_from.vertices[1][1].position = <<F32(-1), FSub(F32(1), Margin.margin)>>

C22_IndexBufferConstant ==
    /\ index_buffer = [id |-> 1, contents |-> <<0, 2, 1, 2, 3, 1>>]
    /\ index_count = 6
    /\ (last.op = "draw_frame" /\ Len(last.draws) = 1)
         => last.draws[1].index_buffer = 1 /\ last.draws[1].indices = 6

\* a draw submitted after a resize of a context that had drawn before
C22_Witness ==
    /\ last.op = "draw_frame" /\ Len(last.draws) = 1 /\ last.created = {}
    /\ size # surface_size
    /\ index_buffer.contents = INDICES /\ index_count = 6

\* the latest handler was a window event that called draw_frame, and the
\* outcome of that call
HostDrew ==
    /\ app.handled.handler = "window_event" /\ app.handled.calls # <<>>
    /\ app.handled.calls[Len(app.handled.calls)].op = "draw_frame"
HostDrawResult == app.handled.calls[Len(app.handled.calls)].result

\* C23: in the example host, a handler whose draw_frame returned Ok has
\* requested another redraw, and a handler whose draw_frame returned
\* OutOfMemory, on a redraw or on a resize, has called event_loop.exit() and
\* has requested no redraw.
C23_RedrawAfterSuccessExitOnFatal ==
    HostDrew
        => /\ HostDrawResult = "Ok"
                => app.handled.request_redraw = 1 /\ app.redraw /\ ~app.handled.exit
           /\ HostDrawResult = "OutOfMemory"
                => app.handled.exit /\ app.exit /\ app.handled.request_redraw = 0

\* a Resized event on a context that had drawn, whose draw_frame ran out of memory
C23_Witness ==
    /\ HostDrew /\ HostDrawResult = "OutOfMemory"
    /\ app.handled.event.kind = "Resized" /\ Len(app.handled.calls) = 2
    /\ texture_data # None /\ app.exit /\ ~app.done

\* C24: when draw_frame returns Lost, the handler goes on to call configure
\* with the current surface size, and a redraw is requested, so that the draw
\* is attempted again.
C24_LostReconfigures ==
    \A i \in 1..Len(app.handled.calls) :
        (app.handled.calls[i].op = "draw_frame" /\ app.handled.calls[i].result = "Lost")
            => /\ \E j \in (i + 1)..Len(app.handled.calls) :
                     /\ app.handled.calls[j].op = "configure"
                     /\ app.handled.calls[j].size = Some(size)
               /\ app.redraw

\* every variable of the context holds nothing: the context and the objects it
\* owned are gone
ContextDropped ==
    /\ config = None /\ clear_color = None /\ index_count = None /\ index_buffer = None
    /\ frame_size = None /\ texture = None /\ bind_group = None /\ vertex_buffer = None
    /\ render_pipeline = None /\ device = None /\ queue = None /\ texture_data = None

\* C25: after suspended or exiting the host holds no render context and none of
\* its GPU objects; while it holds none, a window event (resize or redraw
\* included) makes no configure and no draw_frame call; and the context that
\* resumed creates is Configured, of the window's size, with no object created
\* by its device.
C25_DroppedUntilResumed ==
    /\ app.handled.handler \in {"suspended", "exiting"}
         => app.render_context = None /\ app.window = None /\ app.frame_provider = None
    /\ app.render_context = None
         => /\ ContextDropped
            /\ app.handled.calls = <<>>
            /\ last = no_call
    /\ app.handled.handler = "resumed"
         => /\ app.render_context # None /\ Configured
            /\ config = SurfaceConfiguration(surface_size)
            /\ device = request_device /\ texture_data = None

\* a Resized event that arrived after a context had been dropped and before the
\* next resumed
C25_Witness ==
    /\ app.dropped /\ app.render_context = None /\ ~app.exit
    /\ app.handled.handler = "window_event" /\ app.handled.event.kind = "Resized"
    /\ app.handled.calls = <<>> /\ ContextDropped

\* C26: a context constructed with no clear color (as the example host
\* constructs it, clear_color: None) has a fully opaque clear color, alpha = 1.
C26_DefaultClearOpaque ==
    (app.render_context # None /\ last.op = "init") => clear_color.a = 1

AllPresent ==
    /\ texture # None /\ bind_group # None /\ render_pipeline # None
    /\ vertex_buffer # None /\ frame_size # None

\* C27: after any sequence of configure and draw_frame calls, failed draws
\* included, texture, bind group, render pipeline, vertex buffer and recorded
\* frame size are all present or all absent, and no draw_frame call has failed
\* on an unwrap of the pipeline, the bind group or the vertex buffer.
C27_AllOrNone ==
    /\ AllPresent \/ Configured
    /\ last.result # "Panic"
    /\ (last.op = "draw_frame" /\ last.frame # None) => AllPresent

\* a first draw_frame that created the resources and failed to acquire the
\* surface, on a surface configured without area
C27_Witness ==
    /\ last.op = "draw_frame" /\ "texture" \in last.created
    /\ last.result \in SurfaceErrors /\ AllPresent
    /\ config.width = 0

\* C28: in every Resourced state the recorded frame size, from which configure
\* rebuilds the quad, is the size of the allocated texture.
C28_FrameSizeIsTextureSize ==
    Resourced => frame_size = Some(texture[1].size)

\* C29: a draw_frame call that pulled a frame and acquired the surface has
\* enqueued the upload of that frame into the texture, and its one submit has
\* put that upload into the texture and carried exactly one render pass drawing
\* 6 indices, presented once; a call that pulled nothing or did not acquire the
\* surface has submitted and presented nothing.
C29_OneDrawPerFrame ==
    last.op = "draw_frame"
        => IF last.frame # None /\ last.surface = <<"Ok">>
           THEN /\ last.write = Some([texture |-> texture[1].id,
                                      data |-> last.frame[1].data,
                                      bytes_per_row |-> 4 * last.frame[1].size[1],
                                      rows_per_image |-> last.frame[1].size[2],
                                      extent |-> texture[1].size])
                /\ texture_data = last.write /\ queue = None
                /\ Len(last.draws) = 1 /\ last.draws[1].indices = 6
                /\ last.draws[1].index_buffer = index_buffer.id
                /\ last.presents = 1 /\ last.result = "Ok"
           ELSE last.draws = <<>> /\ last.presents = 0

\* a draw on a Resourced context whose frame has more rows than the texture:
\* the upload the submit applied is the one of this call
C29_Witness ==
    /\ last.op = "draw_frame" /\ last.frame # None /\ last.surface = <<"Ok">>
    /\ last.created = {} /\ Len(last.draws) = 1 /\ last.presents = 1
    /\ texture_data # None /\ texture_data[1].rows_per_image = last.frame[1].size[2]
    /\ last.frame[1].size[2] > texture[1].size[2]

\* C30: as long as no draw_frame call has pulled a frame, whatever configure
\* calls were made, the context is Configured: vertex buffer, texture, bind
\* group, pipeline and recorded frame size are absent, the device has created
\* nothing, and a configure call has only written its size into the surface
\* configuration.
C30_ConfigureKeepsConfigured ==
    first_frame = None
        => /\ Configured
           /\ device = request_device /\ queue = None /\ texture_data = None
           /\ last.op = "configure" => last.created = {} /\ size = last.size[1]

\* a configure call on a Configured context that changed the surface size
C30_Witness ==
    /\ last.op = "configure" /\ first_frame = None /\ Configured
    /\ size # surface_size /\ size = <<1, 2>>

\* the x (k = 1) or y (k = 2) positions of all four vertices are -1 or 1
OnEdges(quad, k) == \A i \in 1..4 : quad[i].position[k] \in {F32(-1), F32(1)}

\* C31: in every quad the vertex builder produces at most one axis is inset:
\* every x position is -1 or 1 (no horizontal margin), or every y position is
\* -1 or 1 (no vertical margin); the axis with the margin is the one the fit
\* named.
C31_OneAxisInset ==
    vertex_from.vertices # None
        => /\ OnEdges(vertex_from.vertices[1], 1) \/ OnEdges(vertex_from.vertices[1], 2)
           /\ Margin.axis = "Horizontal" => OnEdges(vertex_from.vertices[1], 2)
           /\ Margin.axis = "Vertical" => OnEdges(vertex_from.vertices[1], 1)

\* a quad inset on the horizontal axis only
C31_Witness ==
    /\ vertex_from.vertices # None
    /\ Margin.axis = "Horizontal" /\ Margin.margin # F32(0)
    /\ ~OnEdges(vertex_from.vertices[1], 1) /\ OnEdges(vertex_from.vertices[1], 2)

\* a - b for rationals whose denominators are powers of two, over the larger
\* of the two denominators
DSub(a, b) ==
    IF a[2] >= b[2] THEN Norm(a[1] - b[1] * (a[2] \div b[2]), a[2])
    ELSE Norm(a[1] * (b[2] \div a[2]) - b[1], b[2])

\* twice the signed area of the triangle a, b, c of a quad (vertex numbers from
\* 0, as the index list gives them), exactly: (b - a) x (c - a)
SignedArea2(quad, a, b, c) ==
    DSub(RMul(DSub(Rat(quad[b + 1].position[1]), Rat(quad[a + 1].position[1])),
              DSub(Rat(quad[c + 1].position[2]), Rat(quad[a + 1].position[2]))),
         RMul(DSub(Rat(quad[c + 1].position[1]), Rat(quad[a + 1].position[1])),
              DSub(Rat(quad[b + 1].position[2]), Rat(quad[a + 1].position[2]))))

\* whether the pipeline's primitive state removes a triangle of that area
Culled(pipeline, area2) ==
    /\ pipeline.cull_mode = "Back"
    /\ IF pipeline.front_face = "Ccw" THEN ~RLt(<<0, 1>>, area2) ELSE ~RLt(area2, <<0, 1>>)

\* C32: for every quad built from positive aspect ratios, the two triangles the
\* index list selects, (0,2,1) and (2,3,1), have strictly positive signed area
\* (counter-clockwise), so the pipeline, which culls back faces and takes
\* counter-clockwise as front, removes neither.
C32_CounterClockwise ==
    vertex_from.vertices # None
        => /\ Len(INDICES) = 6
           /\ \A t \in {0, 3} :
                 /\ RLt(<<0, 1>>, SignedArea2(vertex_from.vertices[1],
                                              INDICES[t + 1], INDICES[t + 2], INDICES[t + 3]))
                 /\ ~Culled(create_render_pipeline(request_device)[1],
                            SignedArea2(vertex_from.vertices[1],
                                        INDICES[t + 1], INDICES[t + 2], INDICES[t + 3]))

\* a quad inset by a margin of 0.5, the narrowest there is: both triangles
\* have area 1
C32_Witness ==
    /\ vertex_from.vertices # None /\ Margin.margin = <<1, -1>>
    /\ SignedArea2(vertex_from.vertices[1], 0, 2, 1) = <<2, 1>>
    /\ SignedArea2(vertex_from.vertices[1], 2, 3, 1) = <<2, 1>>

\* C33: after a handler's draw_frame returned a surface error other than
\* OutOfMemory, the host has not called event_loop.exit() and a redraw is
\* requested for the window, so that a further draw_frame will be attempted.
C33_RedrawAfterTransientError ==
    (HostDrew /\ HostDrawResult \in SurfaceErrors \ {"OutOfMemory"})
        => ~app.handled.exit /\ app.redraw


\* C34: in the example host, after any sequence of resumed, suspended, exiting
\* and window events, the window, the render context and the frame provider
\* are all three present or all three absent, and no handler has failed on an
\* unwrap of the frame provider or of the window in App::render.
C34_HostAllOrNone ==
    /\ (app.window # None) = (app.render_context # None)
    /\ (app.render_context # None) = (app.frame_provider # None)
    /\ app.handled.returned # "Panic"
    /\ last.result # "Panic"

\* a redraw drawn by a host that had been suspended and resumed: App::render
\* unwrapped the second frame provider and the second window
C34_Witness ==
    /\ app.dropped /\ HostDrew /\ app.handled.event.kind = "RedrawRequested"
    /\ HostDrawResult = "Ok" /\ app.handled.request_redraw = 1
    /\ app.window # None /\ app.render_context # None /\ app.frame_provider # None

====
